---- MODULE Spec2Model ----
(***************************************************************************)
(* The session dispatcher of ssh2incus (package server): shellHandler, the *)
(* helpers it calls (setupEnvironmentVariables, buildCommandString,        *)
(* setupShellPipes) and the tasks it spawns, the self-service subshell     *)
(* incusShell with its child and its two goroutines, and bannerHandler in  *)
(* both builds of banner.go, as one state machine.                         *)
(* Strings the code inspects or formats are sequences of one-character     *)
(* strings; strings it only compares or passes on are TLA+ strings.        *)
(***************************************************************************)
EXTENDS Integers, Sequences, FiniteSets, TLC

(* ------------------------------ bounds -------------------------------- *)

\* resize events the SSH layer delivers on winCh during one session
MaxResize == 2
\* chunks the remote process writes to the request's Stderr sink
MaxErr == 1
\* chunks the remote process writes to the request's Stdout sink
MaxOut == 1
\* resize events the SSH layer's channel holds before its sender blocks
WinChCap == 2
\* chunks the self-service child writes to its terminal
MaxPtyOut == 3
\* chunks bufOut holds before it is full
BufChunks == 2
\* connections whose banner is rendered
MaxBanner == 3

(* --------------------------- exit codes -------------------------------- *)

ExitCodeInvalidLogin == 1
ExitCodeInvalidProject == 2
ExitCodeConnectionError == 255

(* ------------------------------ strings -------------------------------- *)

Quote == "\""

Contains(s, ch) == \E i \in 1..Len(s) : s[i] = ch

\* strings.Split(s, ":")[0]: the part of s before its first colon
RECURSIVE BeforeColon(_)
BeforeColon(s) ==
  IF s = <<>> \/ Head(s) = ":" THEN <<>>
  ELSE <<Head(s)>> \o BeforeColon(Tail(s))

(* ------------------------------ inputs --------------------------------- *)

\* config.Shell: ShellSu, ShellLogin, and any other value (the default case)
ShellSu == "su"
ShellLogin == "login"
ShellModes == {ShellSu, ShellLogin, "shell"}

\* s.RawCommand(): empty, without a dollar sign, with one
RawCommands ==
  { <<>>, <<"l","s">>, <<"l","s"," ","-","l">>,
    <<"e"," ","$","U">>, <<"$">> }

\* s.RemoteAddr().String()
RemoteAddrs == { <<"h","1",":","9">>, <<"[",":",":","1","]",":","9">> }

\* The in-container accounts GetInstanceUser can resolve, by name.
Account(name) ==
  IF name = "root"
  THEN [User |-> <<"r","o","o","t">>, Uid |-> 0, Gid |-> 0,
        Dir |-> <<"/","r">>, Shell |-> <<"/","b">>]
  ELSE [User |-> <<"a","l">>, Uid |-> 1000, Gid |-> 1001,
        Dir |-> <<"/","h","/","a","l">>, Shell |-> <<"/","s","h">>]

\* The LoginUser values a session's context can carry.
LoginUsers ==
  [ User : {"root", "alice"},
    Instance : {"", "%shell", "web01"},
    Project : {"default", "prod"},
    InstanceUser : {"", "alice"} ]

\* lu.IsValid(): the descriptor names an instance
IsValid(lu) == lu.Instance # ""

\* lu.IsDefaultProject()
IsDefaultProject(lu) == lu.Project = "default"

(* ------------------------- buildCommandString -------------------------- *)

SuCommand(user) ==
  <<"s","u"," ","-"," ",Quote>> \o user \o <<Quote>>

LoginCommand(host, user) ==
  <<"l","o","g","i","n"," ","-","h"," ",Quote>> \o host
    \o <<Quote," ","-","f"," ",Quote>> \o user \o <<Quote>>

ShellLoginCommand(shell) == shell \o <<" ","-","l">>

ShellWrap(shell, cmd) ==
  shell \o <<" ","-","c"," ",Quote>> \o cmd \o <<Quote>>

\* buildCommandString with the configured mode tested before the raw command
buildCommandStringModeFirst(raw, mode, iu, remoteAddr) ==
  CASE mode = ShellSu ->
         [cmd |-> SuCommand(iu.User), shouldRunAsUser |-> FALSE]
    [] mode = ShellLogin ->
         [cmd |-> LoginCommand(BeforeColon(remoteAddr), iu.User),
          shouldRunAsUser |-> FALSE]
    [] OTHER ->
         [cmd |-> IF raw = <<>> THEN ShellLoginCommand(iu.Shell)
                  ELSE IF Contains(raw, "$") THEN ShellWrap(iu.Shell, raw)
                  ELSE raw,
          shouldRunAsUser |-> TRUE]

buildCommandString(raw, mode, iu, remoteAddr) ==
  IF raw = <<>>
  THEN CASE mode = ShellSu ->
              [cmd |-> SuCommand(iu.User), shouldRunAsUser |-> FALSE]
         [] mode = ShellLogin ->
              [cmd |-> LoginCommand(BeforeColon(remoteAddr), iu.User),
               shouldRunAsUser |-> FALSE]
         [] OTHER ->
              [cmd |-> ShellLoginCommand(iu.Shell), shouldRunAsUser |-> TRUE]
  ELSE [cmd |-> IF Contains(raw, "$") THEN ShellWrap(iu.Shell, raw) ELSE raw,
        shouldRunAsUser |-> TRUE]

\* The InstanceExec request shellHandler builds: command and identity.
InstanceExec(lu, iu, isPty, env, raw, mode, remoteAddr) ==
  LET b == buildCommandString(raw, mode, iu, remoteAddr) IN
  [ Instance |-> lu.Instance,
    Cmd |-> b.cmd,
    Env |-> env,
    IsPty |-> isPty,
    User |-> IF b.shouldRunAsUser THEN iu.Uid ELSE 0,
    Group |-> IF b.shouldRunAsUser THEN iu.Gid ELSE 0,
    Cwd |-> iu.Dir ]

(* ---------------------- setupEnvironmentVariables ---------------------- *)

K_TERM == <<"T","E","R","M">>
K_USER == <<"U","S","E","R">>
K_HOME == <<"H","O","M","E">>
K_SHELL == <<"S","H","E","L","L">>
K_SSH_AUTH_SOCK == <<"S","S","H","_","A","U","T","H","_","S","O","C","K">>
XTerm256 == <<"x","t","e","r","m","-","2","5","6","c","o","l","o","r">>

\* the part of s after its first "="
RECURSIVE AfterEq(_)
AfterEq(s) ==
  IF s = <<>> THEN <<>>
  ELSE IF Head(s) = "=" THEN Tail(s) ELSE AfterEq(Tail(s))

RECURSIVE BeforeEq(_)
BeforeEq(s) ==
  IF s = <<>> \/ Head(s) = "=" THEN <<>>
  ELSE <<Head(s)>> \o BeforeEq(Tail(s))

\* strings.SplitN(v, "=", 2)
SplitN2(v) == IF Contains(v, "=") THEN <<BeforeEq(v), AfterEq(v)>> ELSE <<v>>

\* a map with no entry
NoEnv == [x \in {} |-> <<>>]

\* env[k] = v on a map
Put(m, k, v) == [x \in DOMAIN m \cup {k} |-> IF x = k THEN v ELSE m[x]]

\* the loop over s.Environ(): later entries overwrite earlier ones
RECURSIVE ParseEnviron(_)
ParseEnviron(vs) ==
  IF vs = <<>> THEN NoEnv
  ELSE LET m == ParseEnviron(SubSeq(vs, 1, Len(vs) - 1))
           parts == SplitN2(vs[Len(vs)])
       IN IF Len(parts) = 2 THEN Put(m, parts[1], parts[2]) ELSE m

\* the client's entries applied after the server's values
setupEnvironmentVariablesClientLast(vs, iu, term) ==
  LET e1 == Put(NoEnv, K_TERM, IF term # <<>> THEN term ELSE XTerm256)
      e2 == Put(e1, K_USER, iu.User)
      e3 == Put(e2, K_HOME, iu.Dir)
      e4 == Put(e3, K_SHELL, iu.Shell)
      c == ParseEnviron(vs)
  IN [x \in DOMAIN e4 \cup DOMAIN c |-> IF x \in DOMAIN c THEN c[x] ELSE e4[x]]

setupEnvironmentVariables(vs, iu, term) ==
  LET e0 == ParseEnviron(vs)
      e1 == Put(e0, K_TERM, IF term # <<>> THEN term ELSE XTerm256)
      e2 == Put(e1, K_USER, iu.User)
      e3 == Put(e2, K_HOME, iu.Dir)
  IN Put(e3, K_SHELL, iu.Shell)

\* s.Environ() of the sessions explored
Environs ==
  { <<>>,
    << <<"S","S","H","_","A","U","T","H","_","S","O","C","K","=","/","c">> >>,
    << <<"U","S","E","R","=","x">>, <<"L","=","C">>, <<"N">>,
       <<"L","=","D","=","E">> >>,
    << <<"T","E","R","M","=","a">>, <<"H","O","M","E","=","/">>,
       <<"S","H","E","L","L","=">>, <<"=","v">> >> }

\* ptyReq.Term
Terms == { <<>>, <<"v","t">> }

\* the in-container path AddSocket returns
SocketPath == <<"/","t","/","a">>

\* ssh.Window / incus.Window: the k-th resize event of a session
Window(k) == [Width |-> 80 + k, Height |-> 24 + k]
NoWindow == [Width |-> 0, Height |-> 0]

\* a receive that takes the newest event queued
ReceiveNewest(ch) ==
  [win |-> ch[Len(ch)], rest |-> SubSeq(ch, 1, Len(ch) - 1)]

\* <-winCh: the oldest event queued, and what stays queued
Receive(ch) == [win |-> Head(ch), rest |-> Tail(ch)]

\* the box drawing the banner starts as, as one token
Template == <<"banner">>

(* ------------------------------- state --------------------------------- *)

VARIABLES
  \* the session as the SSH layer hands it over
  luOk, lu, isPty, term, agentReq, environ, rawCommand, shellMode, remoteAddr,
  \* shellHandler
  pc, defers, calls, msgs, exits, connected, listener, iu, env, req, ret,
  \* the session's resize channel and the window-event forwarder
  winCh, winChClosed, nResize, fwd, fwdWin, wcClosed, sent,
  \* the stderr pipe and its copier
  errCopier, errBlocked, errWClosed, nErr, sshErr,
  \* the stdout sink (the session itself)
  nOut,
  \* the stdin pipe and its copier
  inCopier, inRClosed,
  \* the client and the process
  disconnected, discInExec, crashed, lateWrites,
  \* incusShell: the child, the host PTY, bufOut, the context, the two tasks
  child, childCode, nPty, ptyOut, buf, shOut, ptyClosed, ctxDone, rsz, sin,
  ptySize,
  \* what was written to s.Stderr() by the handlers themselves
  errMsgs,
  \* bannerHandler: the build, os.Hostname(), the package-level banner, the
  \* calls in progress and the strings returned
  variant, hostname, banner, bcalls, returned

sessionVars ==
  <<luOk, lu, isPty, term, agentReq, environ, rawCommand, shellMode, remoteAddr>>
handlerVars ==
  <<pc, defers, calls, msgs, exits, connected, listener, iu, env, req, ret>>
winVars == <<winCh, winChClosed, nResize, fwd, fwdWin, wcClosed, sent>>
errVars == <<errCopier, errBlocked, errWClosed, nErr, sshErr>>
inVars == <<inCopier, inRClosed>>
procVars == <<disconnected, discInExec, crashed, lateWrites>>
shellVars ==
  <<child, childCode, nPty, ptyOut, buf, shOut, ptyClosed, ctxDone, rsz, sin,
    ptySize>>
bannerVars == <<variant, hostname, banner, bcalls, returned>>

vars ==
  <<sessionVars, handlerVars, winVars, errVars, nOut, inVars, procVars,
    shellVars, errMsgs, bannerVars>>

\* the zero LoginUser a failed type assertion yields
ZeroLoginUser ==
  [User |-> "", Instance |-> "", Project |-> "", InstanceUser |-> ""]

\* the state shellHandler starts in, for sessions drawn from the given sets
InitWith(raws, modes, addrs, environs, terms) ==
  /\ luOk \in BOOLEAN
  /\ lu \in IF luOk THEN LoginUsers ELSE {ZeroLoginUser}
  /\ isPty \in BOOLEAN
  /\ term \in IF isPty THEN terms ELSE {<<>>}
  /\ agentReq \in BOOLEAN
  /\ environ \in environs
  /\ rawCommand \in raws
  /\ shellMode \in modes
  /\ remoteAddr \in addrs
  /\ pc = "start"
  /\ defers = <<>>
  /\ calls = <<>>
  /\ msgs = <<>>
  /\ exits = <<>>
  /\ connected = FALSE
  /\ listener = "none"
  /\ iu = <<>>
  /\ env = NoEnv
  /\ req = <<>>
  /\ ret = 0
  /\ winCh = <<>>
  /\ winChClosed = FALSE
  /\ nResize = 0
  /\ fwd = "none"
  /\ fwdWin = NoWindow
  /\ wcClosed = FALSE
  /\ sent = <<>>
  /\ errCopier = "none"
  /\ errBlocked = FALSE
  /\ errWClosed = FALSE
  /\ nErr = 0
  /\ sshErr = 0
  /\ nOut = 0
  /\ inCopier = "none"
  /\ inRClosed = FALSE
  /\ disconnected = FALSE
  /\ discInExec = FALSE
  /\ crashed = FALSE
  /\ lateWrites = 0
  /\ child = "none"
  /\ childCode = 0
  /\ nPty = 0
  /\ ptyOut = 0
  /\ buf = 0
  /\ shOut = 0
  /\ ptyClosed = FALSE
  /\ ctxDone = FALSE
  /\ rsz = "none"
  /\ sin = "none"
  /\ ptySize = NoWindow
  /\ errMsgs = <<>>

\* the package as loaded: the build's banner.go, the host's name, the banner
BannerStart(variants, hostnames) ==
  /\ variant \in variants
  /\ hostname \in hostnames
  /\ banner = Template
  /\ bcalls = <<>>
  /\ returned = <<>>

Init ==
  /\ InitWith({<<"l","s">>}, {"shell"}, {<<"h","1",":","9">>},
              {<< <<"L","=","C">> >>}, {<<"v","t">>})
  /\ BannerStart({"var"}, {"h0"})

(* ----------------------------- shellHandler ---------------------------- *)

Call(op, ok) == [op |-> op, ok |-> ok]

Count(op) == Cardinality({i \in 1..Len(calls) : calls[i].op = op})

Called(op) == \E i \in 1..Len(calls) : calls[i].op = op

\* everything shellHandler's own steps leave alone
noTask ==
  <<sessionVars, winVars, errVars, nOut, inVars, procVars, shellVars, errMsgs,
    bannerVars>>

\* the check with && for ||
InvalidLoginBoth == ~luOk /\ ~IsValid(lu)

\* !ok || !lu.IsValid()
InvalidLogin == ~luOk \/ ~IsValid(lu)

\* the LoginUser check
Validate ==
  /\ pc = "start" /\ ~crashed
  /\ IF InvalidLogin
     THEN /\ msgs' = Append(msgs, <<"invalid connection data">>)
          /\ exits' = Append(exits, ExitCodeInvalidLogin)
          /\ calls' = Append(calls, Call("s.Exit", TRUE))
          /\ pc' = "defers"
     ELSE /\ pc' = "dispatch"
          /\ UNCHANGED <<msgs, exits, calls>>
  /\ UNCHANGED <<defers, connected, listener, iu, env, req, ret, noTask>>

\* the test with || for &&
SelfServiceEither == lu.User = "root" \/ lu.Instance = "%shell"

\* lu.User == "root" && lu.Instance == "%shell"
SelfService == lu.User = "root" /\ lu.Instance = "%shell"

\* the %shell short-circuit
Dispatch ==
  /\ pc = "dispatch" /\ ~crashed
  /\ IF SelfService
     THEN /\ calls' = Append(calls, Call("incusShell", TRUE))
          /\ pc' = "incusShell"
     ELSE /\ pc' = "newServer"
          /\ UNCHANGED calls
  /\ UNCHANGED <<defers, msgs, exits, connected, listener, iu, env, req, ret,
                 noTask>>

NewServer ==
  /\ pc = "newServer" /\ ~crashed
  /\ \E ok \in BOOLEAN :
       IF ok
       THEN /\ calls' = Append(calls, Call("NewIncusServer", TRUE))
            /\ pc' = "connect"
            /\ UNCHANGED exits
       ELSE /\ calls' = calls \o << Call("NewIncusServer", FALSE),
                                    Call("s.Exit", TRUE) >>
            /\ exits' = Append(exits, ExitCodeConnectionError)
            /\ pc' = "defers"
  /\ UNCHANGED <<defers, msgs, connected, listener, iu, env, req, ret, noTask>>

\* the defer left out
ConnectDefersNothing == defers

\* defer server.Disconnect()
ConnectDefers == <<"Disconnect">> \o defers

Connect ==
  /\ pc = "connect" /\ ~crashed
  /\ \E ok \in BOOLEAN :
       IF ok
       THEN /\ calls' = Append(calls, Call("Connect", TRUE))
            /\ connected' = TRUE
            /\ defers' = ConnectDefers
            /\ pc' = "project"
            /\ UNCHANGED exits
       ELSE /\ calls' = calls \o << Call("Connect", FALSE),
                                    Call("s.Exit", TRUE) >>
            /\ exits' = Append(exits, ExitCodeConnectionError)
            /\ pc' = "defers"
            /\ UNCHANGED <<connected, defers>>
  /\ UNCHANGED <<msgs, listener, iu, env, req, ret, noTask>>

\* the test without its negation
ProjectNeededInverted == IsDefaultProject(lu)

\* !lu.IsDefaultProject()
ProjectNeeded == ~IsDefaultProject(lu)

Project ==
  /\ pc = "project" /\ ~crashed
  /\ IF ProjectNeeded
     THEN \E ok \in BOOLEAN :
            IF ok
            THEN /\ calls' = Append(calls, Call("UseProject", TRUE))
                 /\ pc' = "user"
                 /\ UNCHANGED <<msgs, exits>>
            ELSE /\ calls' = calls \o << Call("UseProject", FALSE),
                                         Call("s.Exit", TRUE) >>
                 /\ msgs' = Append(msgs,
                                   <<"unknown project ", lu.Project, "\n">>)
                 /\ exits' = Append(exits, ExitCodeInvalidProject)
                 /\ pc' = "defers"
     ELSE pc' = "user" /\ UNCHANGED <<calls, msgs, exits>>
  /\ UNCHANGED <<defers, connected, listener, iu, env, req, ret, noTask>>

UserLookup ==
  /\ pc = "user" /\ ~crashed
  /\ \E found \in BOOLEAN :
       LET looked == IF lu.InstanceUser # ""
                     THEN <<Call("GetInstanceUser", found)>> ELSE <<>>
       IN /\ lu.InstanceUser = "" => ~found
          /\ iu' = IF found THEN <<Account(lu.InstanceUser)>> ELSE <<>>
          /\ IF ~found
             THEN /\ msgs' = Append(msgs, <<"not found user or instance\n">>)
                  /\ exits' = Append(exits, ExitCodeInvalidLogin)
                  /\ calls' = calls \o looked \o <<Call("s.Exit", TRUE)>>
                  /\ pc' = "defers"
             ELSE /\ calls' = calls \o looked
                  /\ pc' = "env"
                  /\ UNCHANGED <<msgs, exits>>
  /\ UNCHANGED <<defers, connected, listener, env, req, ret, noTask>>

\* s.Pty() and setupEnvironmentVariables
PtyEnv ==
  /\ pc = "env" /\ ~crashed
  /\ env' = setupEnvironmentVariables(environ, iu[1], term)
  /\ pc' = "agent"
  /\ UNCHANGED <<defers, calls, msgs, exits, connected, listener, iu, req, ret,
                 noTask>>

\* the removal never registered
AgentDefersNoRemove(aok) == <<"l.Close">> \o defers

\* the removal registered whatever AddSocket returned
AgentDefersAlwaysRemove(aok) == <<"RemoveSocket", "l.Close">> \o defers

\* defer l.Close(), and defer d.RemoveSocket() when AddSocket succeeded
AgentDefers(aok) ==
  IF aok THEN <<"RemoveSocket", "l.Close">> \o defers
  ELSE <<"l.Close">> \o defers

\* the agent listener and the proxy device
AgentSetup ==
  /\ pc = "agent" /\ ~crashed
  /\ IF ~agentReq
     THEN /\ pc' = "build"
          /\ UNCHANGED <<defers, calls, listener, env>>
     ELSE \E lok \in BOOLEAN, aok \in BOOLEAN :
            IF ~lok
            THEN /\ ~aok
                 /\ calls' = Append(calls, Call("NewAgentListener", FALSE))
                 /\ pc' = "defers"
                 /\ UNCHANGED <<defers, listener, env>>
            ELSE /\ listener' = "open"
                 /\ calls' = calls \o
                      << Call("NewAgentListener", TRUE),
                         Call("ForwardAgentConnections", TRUE),
                         Call("NewProxyDevice", TRUE),
                         Call("AddSocket", aok) >>
                 /\ env' = IF aok THEN Put(env, K_SSH_AUTH_SOCK, SocketPath)
                           ELSE env
                 /\ defers' = AgentDefers(aok)
                 /\ pc' = "build"
  /\ UNCHANGED <<msgs, exits, connected, iu, req, ret, noTask>>

\* buildCommandString, setupShellPipes, the window channel and its forwarder,
\* NewInstanceExec, and the call of Exec
BuildAndExec ==
  /\ pc = "build" /\ ~crashed
  /\ inCopier' = "read"
  /\ errCopier' = "read"
  /\ defers' = <<"close(windowChannel)">> \o defers
  /\ fwd' = "recv"
  /\ req' = << InstanceExec(lu, iu[1], isPty, env, rawCommand, shellMode,
                            remoteAddr) >>
  /\ calls' = calls \o << Call("NewInstanceExec", TRUE), Call("Exec", TRUE) >>
  /\ pc' = "exec"
  /\ UNCHANGED <<msgs, exits, connected, listener, iu, env, ret, sessionVars,
                 winCh, winChClosed, nResize, fwdWin, wcClosed, sent,
                 errBlocked, errWClosed, nErr, sshErr, nOut,
                 inRClosed, procVars, shellVars, errMsgs, bannerVars>>

\* what Exec can return: an exit code, or -1 and an error
ExecResults ==
  { [code |-> 0, ok |-> TRUE], [code |-> 3, ok |-> TRUE],
    [code |-> -1, ok |-> FALSE] }

\* ret, err := ie.Exec(): Exec returns once none of its writes is pending; it
\* may or may not close the Stdin and Stderr ends it was given
ExecReturn ==
  /\ pc = "exec" /\ ~crashed /\ ~errBlocked
  /\ \E r \in ExecResults, closes \in BOOLEAN :
       /\ ret' = r.code
       /\ calls' = Append(calls, Call("ExecReturned", r.ok))
       /\ inRClosed' = closes
       /\ errWClosed' = closes
  /\ pc' = "exit"
  /\ UNCHANGED <<defers, msgs, exits, connected, listener, iu, env, req,
                 sessionVars, winVars, errCopier, errBlocked, nErr, sshErr,
                 nOut, inCopier, procVars, shellVars, errMsgs, bannerVars>>

\* s.Exit(ret)
ExitStep ==
  /\ pc = "exit" /\ ~crashed
  /\ exits' = Append(exits, ret)
  /\ calls' = Append(calls, Call("s.Exit", TRUE))
  /\ pc' = "defers"
  /\ UNCHANGED <<defers, msgs, connected, listener, iu, env, req, ret, noTask>>

(* the deferred calls, last registered first *)

\* the deferred calls run in the order they were registered
UnwindOldestFirst(ds) ==
  [run |-> ds[Len(ds)], rest |-> SubSeq(ds, 1, Len(ds) - 1)]

\* the deferred call that runs next, and those left after it
Unwind(ds) == [run |-> Head(ds), rest |-> Tail(ds)]

Deferred(name) ==
  /\ pc = "defers" /\ ~crashed
  /\ defers # <<>> /\ Unwind(defers).run = name
  /\ defers' = Unwind(defers).rest
  /\ UNCHANGED <<pc, msgs, exits, iu, env, req, ret, sessionVars, winCh,
                 winChClosed, nResize, fwd, fwdWin, sent, errVars, nOut,
                 inVars, procVars, child, childCode, nPty, ptyOut, buf, shOut,
                 rsz, sin, ptySize, errMsgs, bannerVars>>

DeferCloseWindow ==
  /\ Deferred("close(windowChannel)")
  /\ wcClosed' = TRUE
  /\ calls' = Append(calls, Call("close(windowChannel)", TRUE))
  /\ UNCHANGED <<connected, listener, ptyClosed, ctxDone>>

\* ok records whether the client is still connected when the device is removed
DeferRemoveSocket ==
  /\ Deferred("RemoveSocket")
  /\ calls' = Append(calls, Call("RemoveSocket", connected))
  /\ UNCHANGED <<connected, listener, wcClosed, ptyClosed, ctxDone>>

DeferListenerClose ==
  /\ Deferred("l.Close")
  /\ listener' = "closed"
  /\ calls' = Append(calls, Call("l.Close", TRUE))
  /\ UNCHANGED <<connected, wcClosed, ptyClosed, ctxDone>>

DeferDisconnect ==
  /\ Deferred("Disconnect")
  /\ connected' = FALSE
  /\ calls' = Append(calls, Call("Disconnect", TRUE))
  /\ UNCHANGED <<listener, wcClosed, ptyClosed, ctxDone>>

Return ==
  /\ pc = "defers" /\ ~crashed
  /\ defers = <<>>
  /\ pc' = "returned"
  /\ UNCHANGED <<defers, calls, msgs, exits, connected, listener, iu, env, req,
                 ret, noTask>>

(* ------------------------------ incusShell ------------------------------ *)

\* what cmd.Wait can report: nil, an ExitError with a code, another error
WaitResults == {"nil", "exit1", "exit130", "error"}

WaitCode(w) == IF w = "exit1" THEN 1 ELSE 130

afterShell == <<defers, connected, listener, iu, env, req, ret, noTask>>

\* the session has no PTY
ShellNoPty ==
  /\ pc = "incusShell" /\ ~crashed
  /\ ~isPty
  /\ msgs' = Append(msgs, <<"No PTY requested.\n">>)
  /\ exits' = Append(exits, ExitCodeConnectionError)
  /\ calls' = Append(calls, Call("s.Exit", TRUE))
  /\ pc' = "defers"
  /\ UNCHANGED afterShell

\* everything outside shellHandler's locals and incusShell's own state
outsideShell ==
  <<sessionVars, winVars, errVars, nOut, inVars, procVars, errMsgs, bannerVars>>

\* pty.Start(cmd), defer f.Close(), the welcome message, the context with
\* defer cancel(), and the two goroutines
ShellPtyStart ==
  /\ pc = "incusShell" /\ ~crashed
  /\ isPty
  /\ \E ok \in BOOLEAN :
       IF ok
       THEN /\ calls' = Append(calls, Call("pty.Start", TRUE))
            /\ msgs' = Append(msgs, <<"incus shell emulator">>)
            /\ child' = "running"
            /\ defers' = <<"cancel", "f.Close">> \o defers
            /\ rsz' = "run"
            /\ sin' = "read"
            /\ pc' = "shellRun"
            /\ UNCHANGED exits
       ELSE /\ calls' = calls \o << Call("pty.Start", FALSE),
                                    Call("s.Exit", TRUE) >>
            /\ msgs' = Append(msgs, <<"Couldn't allocate PTY\n">>)
            /\ exits' = Append(exits, ExitCodeConnectionError)
            /\ pc' = "defers"
            /\ UNCHANGED <<child, defers, rsz, sin>>
  /\ UNCHANGED <<connected, listener, iu, env, req, ret, childCode, nPty,
                 ptyOut, buf, shOut, ptyClosed, ctxDone, ptySize, outsideShell>>

shellLocals == <<defers, connected, listener, iu, env, req, ret>>

\* io.Copy(bufOut, f): bufOut is full, so it is flushed to the session before
\* the next read; on a closed session the write fails and the copy ends
ShellFlush ==
  /\ pc = "shellRun" /\ ~crashed
  /\ buf = BufChunks
  /\ IF disconnected
     THEN pc' = "shellWait" /\ UNCHANGED <<buf, shOut>>
     ELSE /\ shOut' = shOut + buf
          /\ buf' = 0
          /\ UNCHANGED pc
  /\ UNCHANGED <<calls, msgs, exits, shellLocals, child, childCode, nPty,
                 ptyOut, ptyClosed, ctxDone, rsz, sin, ptySize, outsideShell>>

\* io.Copy(bufOut, f): a chunk read from the host PTY goes into bufOut
ShellRead ==
  /\ pc = "shellRun" /\ ~crashed
  /\ buf < BufChunks /\ ptyOut > 0
  /\ ptyOut' = ptyOut - 1
  /\ buf' = buf + 1
  /\ UNCHANGED <<pc, calls, msgs, exits, shellLocals, child, childCode, nPty,
                 shOut, ptyClosed, ctxDone, rsz, sin, ptySize, outsideShell>>

\* io.Copy(bufOut, f): the child is gone and the PTY drained, the read fails
\* and the copy ends; bufOut is not flushed
ShellReadEnd ==
  /\ pc = "shellRun" /\ ~crashed
  /\ buf < BufChunks /\ ptyOut = 0 /\ child = "exited"
  /\ pc' = "shellWait"
  /\ UNCHANGED <<calls, msgs, exits, shellLocals, shellVars, outsideShell>>

\* what cmd.Wait reports for a child that exited with the given code
WaitResultsFor(code) ==
  { IF code = 0 THEN "nil" ELSE IF code = 1 THEN "exit1" ELSE "exit130",
    "error" }

\* cmd.Wait() returns once the child has exited
ShellWait ==
  /\ pc = "shellWait" /\ ~crashed
  /\ child = "exited"
  /\ \E w \in WaitResultsFor(childCode) :
       /\ IF w = "nil"
          THEN /\ calls' = Append(calls, Call("cmd.Wait", TRUE))
               /\ UNCHANGED exits
          ELSE /\ calls' = calls \o << Call("cmd.Wait", FALSE),
                                       Call("s.Exit", TRUE) >>
               /\ exits' = Append(exits, IF w = "error"
                                         THEN ExitCodeConnectionError
                                         ELSE WaitCode(w))
  /\ pc' = "defers"
  /\ UNCHANGED <<msgs, afterShell>>

\* defer cancel()
DeferCancel ==
  /\ Deferred("cancel")
  /\ ctxDone' = TRUE
  /\ calls' = Append(calls, Call("cancel", TRUE))
  /\ UNCHANGED <<connected, listener, wcClosed, ptyClosed>>

\* defer f.Close()
DeferPtyClose ==
  /\ Deferred("f.Close")
  /\ ptyClosed' = TRUE
  /\ calls' = Append(calls, Call("f.Close", TRUE))
  /\ UNCHANGED <<connected, listener, wcClosed, ctxDone>>

(* the two goroutines of incusShell *)

shellTaskFrame == <<handlerVars, outsideShell>>

\* case win, ok := <-winCh with ok: setWinsize(f, win.Width, win.Height)
RszApply ==
  /\ rsz = "run" /\ ~crashed
  /\ winCh # <<>>
  /\ ptySize' = [Width |-> Receive(winCh).win.Width,
                 Height |-> Receive(winCh).win.Height]
  /\ winCh' = Receive(winCh).rest
  /\ UNCHANGED <<sessionVars, handlerVars, winChClosed, nResize, fwd, fwdWin,
                 wcClosed, sent, errVars, nOut, inVars, procVars, errMsgs,
                 bannerVars, child, childCode, nPty, ptyOut, buf, shOut,
                 ptyClosed, ctxDone, rsz, sin>>

\* winCh is closed, or ctx.Done(): the goroutine returns
RszEnd ==
  /\ rsz = "run" /\ ~crashed
  /\ \/ winCh = <<>> /\ winChClosed
     \/ ctxDone
     \/ disconnected
  /\ rsz' = "done"
  /\ UNCHANGED <<child, childCode, nPty, ptyOut, buf, shOut, ptyClosed, ctxDone,
                 sin, ptySize, shellTaskFrame>>

\* io.Copy(f, bufIn): input the client sent is read from the session
SinRead ==
  /\ sin = "read" /\ ~crashed
  /\ ~disconnected
  /\ sin' = "write"
  /\ UNCHANGED <<child, childCode, nPty, ptyOut, buf, shOut, ptyClosed, ctxDone,
                 rsz, ptySize, shellTaskFrame>>

\* the session's input is at EOF: the copy ends, and the deferred cancel()
SinEOF ==
  /\ sin = "read" /\ ~crashed
  /\ disconnected
  /\ sin' = "done"
  /\ ctxDone' = TRUE
  /\ UNCHANGED <<child, childCode, nPty, ptyOut, buf, shOut, ptyClosed, rsz,
                 ptySize, shellTaskFrame>>

\* the input is written to the host PTY; on a closed f the write fails, the
\* copy ends, and the deferred cancel()
SinWrite ==
  /\ sin = "write" /\ ~crashed
  /\ IF ptyClosed
     THEN sin' = "done" /\ ctxDone' = TRUE
     ELSE sin' = "read" /\ UNCHANGED ctxDone
  /\ UNCHANGED <<child, childCode, nPty, ptyOut, buf, shOut, ptyClosed, rsz,
                 ptySize, shellTaskFrame>>

(* the child process of incusShell *)

\* the exit codes the child is seen to end with
ChildCodes == {0, 1, 130}

\* the child writes to its terminal
ChildWrite ==
  /\ child = "running" /\ ~crashed
  /\ nPty < MaxPtyOut
  /\ nPty' = nPty + 1
  /\ ptyOut' = ptyOut + 1
  /\ UNCHANGED <<child, childCode, buf, shOut, ptyClosed, ctxDone, rsz, sin,
                 ptySize, shellTaskFrame>>

\* the child exits
ChildExit ==
  /\ child = "running" /\ ~crashed
  /\ \E c \in ChildCodes : childCode' = c
  /\ child' = "exited"
  /\ UNCHANGED <<nPty, ptyOut, buf, shOut, ptyClosed, ctxDone, rsz, sin,
                 ptySize, shellTaskFrame>>

(* ----------------------------- bannerHandler --------------------------- *)

\* the descriptors bannerHandler sees: an invalid one, a plain one, one with
\* a remote, one that requests a command
BannerUsers ==
  { [InstanceUser |-> "", Instance |-> "", Project |-> "", Command |-> FALSE,
     Remote |-> ""],
    [InstanceUser |-> "alice", Instance |-> "web01", Project |-> "default",
     Command |-> FALSE, Remote |-> ""],
    [InstanceUser |-> "bob", Instance |-> "db", Project |-> "prod",
     Command |-> FALSE, Remote |-> "r1"],
    [InstanceUser |-> "alice", Instance |-> "web01", Project |-> "default",
     Command |-> TRUE, Remote |-> ""] }

\* fmt.Sprintf of the descriptor line and the rule under it, as tokens
DescriptorLine(d, host) ==
  <<"user ", d.InstanceUser, " box ", d.Instance, ".", d.Project>> \o host
    \o <<"\n", "rule", "\n">>

\* the hostname part in the build that keeps banner in a variable
HostVar == IF hostname # "" THEN <<" host ", hostname>> ELSE <<>>

\* the hostname part in the build that keeps banner constant
HostConst(d) ==
  IF hostname # ""
  THEN <<" host ">> \o (IF d.Remote # "" THEN <<d.Remote, " / ">> ELSE <<>>)
         \o <<hostname>>
  ELSE <<>>

bannerFrame ==
  <<sessionVars, handlerVars, winVars, errVars, nOut, inVars, procVars,
    shellVars, errMsgs, variant, hostname>>

\* the SSH layer asks for the banner of a new connection
BannerCall ==
  /\ Len(bcalls) < MaxBanner
  /\ \E d \in BannerUsers :
       bcalls' = Append(bcalls, [lu |-> d, pc |-> "start", tmp |-> <<>>])
  /\ UNCHANGED <<banner, returned, bannerFrame>>

\* the validity check, and in the constant build the IsCommand check
BannerValidate ==
  \E i \in 1..Len(bcalls) :
    LET c == bcalls[i] IN
    /\ c.pc = "start"
    /\ IF ~IsValid(c.lu)
       THEN /\ returned' = Append(returned, [lu |-> c.lu, out |-> <<>>])
            /\ bcalls' = [bcalls EXCEPT ![i].pc = "done"]
       ELSE IF variant = "const" /\ c.lu.Command
       THEN /\ returned' = Append(returned, [lu |-> c.lu, out |-> banner])
            /\ bcalls' = [bcalls EXCEPT ![i].pc = "done"]
       ELSE /\ bcalls' = [bcalls EXCEPT
                            ![i].pc = IF variant = "var" THEN "add" ELSE "fresh"]
            /\ UNCHANGED returned
    /\ UNCHANGED <<banner, bannerFrame>>

\* banner += ...: the variable is read
BannerLoad ==
  \E i \in 1..Len(bcalls) :
    /\ bcalls[i].pc = "add"
    /\ bcalls' = [bcalls EXCEPT ![i].pc = "store", ![i].tmp = banner]
    /\ UNCHANGED <<banner, returned, bannerFrame>>

\* banner += ...: the variable is written
BannerStore ==
  \E i \in 1..Len(bcalls) :
    /\ bcalls[i].pc = "store"
    /\ banner' = bcalls[i].tmp \o DescriptorLine(bcalls[i].lu, HostVar)
    /\ bcalls' = [bcalls EXCEPT ![i].pc = "ret", ![i].tmp = <<>>]
    /\ UNCHANGED <<returned, bannerFrame>>

\* return banner + "\n"
BannerReturn ==
  \E i \in 1..Len(bcalls) :
    /\ bcalls[i].pc = "ret"
    /\ returned' = Append(returned, [lu |-> bcalls[i].lu,
                                     out |-> banner \o <<"\n">>])
    /\ bcalls' = [bcalls EXCEPT ![i].pc = "done"]
    /\ UNCHANGED <<banner, bannerFrame>>

\* b := banner + ...; return b + "\n"
BannerFresh ==
  \E i \in 1..Len(bcalls) :
    LET d == bcalls[i].lu IN
    /\ bcalls[i].pc = "fresh"
    /\ returned' = Append(returned,
                          [lu |-> d,
                           out |-> banner \o DescriptorLine(d, HostConst(d))
                                     \o <<"\n">>])
    /\ bcalls' = [bcalls EXCEPT ![i].pc = "done"]
    /\ UNCHANGED <<banner, bannerFrame>>

(* ----------------------- the window-event forwarder -------------------- *)

fwdFrame ==
  <<sessionVars, handlerVars, errVars, nOut, inVars, disconnected, discInExec,
    lateWrites, shellVars, errMsgs, bannerVars>>

\* for win := range winCh
FwdRecv ==
  /\ fwd = "recv" /\ ~crashed
  /\ winCh # <<>>
  /\ fwdWin' = [Width |-> Receive(winCh).win.Width,
                Height |-> Receive(winCh).win.Height]
  /\ winCh' = Receive(winCh).rest
  /\ fwd' = "send"
  /\ UNCHANGED <<winChClosed, nResize, wcClosed, sent, crashed, fwdFrame>>

\* winCh is closed and drained: the loop ends
FwdEnd ==
  /\ fwd = "recv" /\ ~crashed
  /\ winCh = <<>> /\ winChClosed
  /\ fwd' = "done"
  /\ UNCHANGED <<winCh, winChClosed, nResize, fwdWin, wcClosed, sent, crashed,
                 fwdFrame>>

\* windowChannel <- incus.Window{...}, taken by the exec's resize consumer
FwdSend ==
  /\ fwd = "send" /\ ~crashed
  /\ ~wcClosed
  /\ sent' = Append(sent, fwdWin)
  /\ fwdWin' = NoWindow
  /\ fwd' = "recv"
  /\ UNCHANGED <<winCh, winChClosed, nResize, wcClosed, crashed, fwdFrame>>

\* the send finds windowChannel closed: the goroutine panics, the process dies
FwdPanic ==
  /\ fwd = "send" /\ ~crashed
  /\ wcClosed
  /\ fwd' = "panic"
  /\ crashed' = TRUE
  /\ UNCHANGED <<winCh, winChClosed, nResize, fwdWin, wcClosed, sent, fwdFrame>>

(* --------------------------- the pipe copiers --------------------------- *)

errFrame ==
  <<sessionVars, handlerVars, winVars, nOut, inVars, disconnected, discInExec,
    crashed, shellVars, errMsgs, bannerVars>>

\* io.Copy(s.Stderr(), e): Read takes the chunk a blocked Write offers; that
\* Write returns
ErrRead ==
  /\ errCopier = "read" /\ ~crashed
  /\ errBlocked
  /\ errBlocked' = FALSE
  /\ errCopier' = "write"
  /\ UNCHANGED <<errWClosed, nErr, sshErr, lateWrites, errFrame>>

\* Read finds the write end closed: the copy ends, e.Close()
ErrEOF ==
  /\ errCopier = "read" /\ ~crashed
  /\ ~errBlocked /\ errWClosed
  /\ errCopier' = "done"
  /\ UNCHANGED <<errBlocked, errWClosed, nErr, sshErr, lateWrites, errFrame>>

\* the chunk read is written to s.Stderr()
ErrWrite ==
  /\ errCopier = "write" /\ ~crashed
  /\ sshErr' = sshErr + 1
  /\ lateWrites' = IF exits # <<>> THEN lateWrites + 1 ELSE lateWrites
  /\ errCopier' = "read"
  /\ UNCHANGED <<errBlocked, errWClosed, nErr, errFrame>>

\* the write to a closed session fails: the copy ends, e.Close() releases a
\* blocked writer
ErrWriteFail ==
  /\ errCopier = "write" /\ ~crashed
  /\ disconnected
  /\ errCopier' = "done"
  /\ errBlocked' = FALSE
  /\ UNCHANGED <<errWClosed, nErr, sshErr, lateWrites, errFrame>>

inFrame ==
  <<sessionVars, handlerVars, winVars, errVars, nOut, procVars, shellVars,
    errMsgs, bannerVars>>

\* io.Copy(w, s): a chunk the client sent is read from the session
InRead ==
  /\ inCopier = "read" /\ ~crashed
  /\ ~disconnected
  /\ inCopier' = "write"
  /\ UNCHANGED <<inRClosed, inFrame>>

\* the session's input is at EOF: the copy ends, w.Close()
InEOF ==
  /\ inCopier = "read" /\ ~crashed
  /\ disconnected
  /\ inCopier' = "done"
  /\ UNCHANGED <<inRClosed, inFrame>>

\* the read end was closed: the pipe write fails and the copy ends
InWriteFail ==
  /\ inCopier = "write" /\ ~crashed
  /\ inRClosed
  /\ inCopier' = "done"
  /\ UNCHANGED <<inRClosed, inFrame>>

(* ------------------------- the exec while it runs ----------------------- *)

\* the exec reads its Stdin: the copier's pipe write completes
ExecReadStdin ==
  /\ pc = "exec" /\ ~crashed
  /\ inCopier = "write"
  /\ inCopier' = "read"
  /\ UNCHANGED <<inRClosed, inFrame>>

\* the exec writes remote output to its Stdout, the session
ExecWriteStdout ==
  /\ pc = "exec" /\ ~crashed
  /\ nOut < MaxOut
  /\ nOut' = nOut + 1
  /\ UNCHANGED <<sessionVars, handlerVars, winVars, errVars, inVars, procVars,
                 shellVars, errMsgs, bannerVars>>

\* the exec writes remote output to its Stderr, the pipe: the write blocks
\* until the copier reads it, and fails at once when the read end is closed
ExecWriteStderr ==
  /\ pc = "exec" /\ ~crashed
  /\ nErr < MaxErr /\ ~errBlocked
  /\ nErr' = nErr + 1
  /\ errBlocked' = (errCopier # "done")
  /\ UNCHANGED <<errCopier, errWClosed, sshErr, lateWrites, errFrame>>

(* ------------------------ the client and SSH layer ---------------------- *)

\* a window-change request: the SSH layer queues a resize event
Resize ==
  /\ ~crashed
  /\ isPty /\ ~winChClosed
  /\ nResize < MaxResize /\ Len(winCh) < WinChCap
  /\ nResize' = nResize + 1
  /\ winCh' = Append(winCh, Window(nResize + 1))
  /\ UNCHANGED <<winChClosed, fwd, fwdWin, wcClosed, sent, crashed, fwdFrame>>

\* the client goes away or the session ends: the context is cancelled, the
\* session's streams and its resize channel are closed
ClientDisconnect ==
  /\ ~crashed
  /\ ~disconnected
  /\ disconnected' = TRUE
  /\ discInExec' = (pc = "exec")
  /\ winChClosed' = TRUE
  /\ UNCHANGED <<sessionVars, handlerVars, winCh, nResize, fwd, fwdWin,
                 wcClosed, sent, errVars, nOut, inVars, crashed, lateWrites,
                 shellVars, errMsgs, bannerVars>>

(* ---------------------------- specifications ---------------------------- *)

HandlerStep ==
  \/ Validate \/ Dispatch \/ NewServer \/ Connect \/ Project \/ UserLookup
  \/ PtyEnv \/ AgentSetup \/ BuildAndExec \/ ExecReturn \/ ExitStep
  \/ DeferCloseWindow \/ DeferRemoveSocket \/ DeferListenerClose
  \/ DeferDisconnect \/ Return

\* incusShell
ShellStep ==
  \/ ShellNoPty \/ ShellPtyStart
  \/ ShellFlush \/ ShellRead \/ ShellReadEnd \/ ShellWait
  \/ DeferCancel \/ DeferPtyClose

ShellTaskStep ==
  \/ RszApply \/ RszEnd \/ SinRead \/ SinEOF \/ SinWrite

ChildStep == ChildWrite \/ ChildExit

TaskStep ==
  \/ FwdRecv \/ FwdEnd \/ FwdSend \/ FwdPanic
  \/ ErrRead \/ ErrEOF \/ ErrWrite \/ ErrWriteFail
  \/ InRead \/ InEOF \/ InWriteFail

EnvStep ==
  \/ ExecReadStdin \/ ExecWriteStdout \/ ExecWriteStderr
  \/ Resize \/ ClientDisconnect

Next ==
  HandlerStep \/ ShellStep \/ TaskStep \/ ShellTaskStep \/ EnvStep \/ ChildStep

Spec == Init /\ [][Next]_vars

\* shellHandler alone, for every session input: the tasks and the client idle
InitDispatch ==
  /\ InitWith(RawCommands, ShellModes, RemoteAddrs, Environs, Terms)
  /\ BannerStart({"var"}, {"h0"})

SpecDispatch == InitDispatch /\ [][HandlerStep]_vars

\* the self-service subshell: the sessions of root@%shell
InitShell ==
  /\ Init
  /\ luOk /\ lu.User = "root" /\ lu.Instance = "%shell"
  /\ lu.Project = "default" /\ lu.InstanceUser = ""
  /\ ~agentReq

NextShell ==
  \/ Validate \/ Dispatch \/ ShellStep \/ Return
  \/ ShellTaskStep \/ ChildStep
  \/ Resize \/ ClientDisconnect

SpecShell == InitShell /\ [][NextShell]_vars

\* bannerHandler alone, in either build, called for several connections
InitBanner ==
  /\ InitWith({<<>>}, {"shell"}, {<<"h","1",":","9">>}, {<<>>}, {<<>>})
  /\ ~luOk /\ ~isPty /\ ~agentReq
  /\ BannerStart({"var", "const"}, {"", "h0"})

NextBanner ==
  \/ BannerCall \/ BannerValidate \/ BannerLoad \/ BannerStore
  \/ BannerReturn \/ BannerFresh

SpecBanner == InitBanner /\ [][NextBanner]_vars

(* -------------------------------- claims ------------------------------- *)

Returned == pc = "returned"

Succeeded(op) == \E i \in 1..Len(calls) : calls[i] = Call(op, TRUE)

Failed(op) == \E i \in 1..Len(calls) : calls[i] = Call(op, FALSE)

\* every call of op comes after a call of earlier
After(op, earlier) ==
  \A i \in 1..Len(calls) :
    calls[i].op = op => \E j \in 1..(i - 1) : calls[j].op = earlier

\* C1: Disconnect is invoked at most once and only after a successful
\* Connect; when shellHandler has returned it was invoked exactly once if
\* Connect succeeded and not at all otherwise.
C1_DisconnectOnce ==
  /\ Count("Disconnect") <= 1
  /\ Called("Disconnect") => Succeeded("Connect")
  /\ Returned => Count("Disconnect") = IF Succeeded("Connect") THEN 1 ELSE 0

C1_Witness ==
  /\ Returned /\ Succeeded("Connect") /\ Failed("ExecReturned")
  /\ Count("Disconnect") = 1

\* C2: when AddSocket succeeded, RemoveSocket is invoked exactly once, after
\* Exec returned and before shellHandler returns, whatever Exec returned.
C2_RemoveSocketOnce ==
  /\ Count("RemoveSocket") <= 1
  /\ After("RemoveSocket", "ExecReturned")
  /\ (Returned /\ agentReq /\ Succeeded("AddSocket"))
       => Count("RemoveSocket") = 1

C2_Witness ==
  /\ Returned /\ Succeeded("AddSocket") /\ Failed("ExecReturned")
  /\ ret = -1 /\ Count("RemoveSocket") = 1

ServerLeft(e, k) ==
  LET c == ParseEnviron(environ) IN
  IF k \in DOMAIN c THEN k \in DOMAIN e /\ e[k] = c[k] ELSE k \notin DOMAIN e

\* C4: when agent forwarding is requested and the agent listener cannot be
\* created or AddSocket fails, shellHandler still invokes Exec once, without
\* SSH_AUTH_SOCK set by the server, and reports Exec's exit code.
C4_AgentFailureContinues ==
  (Returned /\ agentReq /\ (Failed("NewAgentListener") \/ Failed("AddSocket")))
    => /\ Count("Exec") = 1
       /\ req # <<>> /\ ServerLeft(req[1].Env, K_SSH_AUTH_SOCK)
       /\ exits = <<ret>>

\* What holds of C4 in the code: the AddSocket half.
C4_AddSocketFailureContinues ==
  (Returned /\ Failed("AddSocket"))
    => /\ Count("Exec") = 1
       /\ req # <<>> /\ ServerLeft(req[1].Env, K_SSH_AUTH_SOCK)
       /\ exits = <<ret>>

\* C5: once s.Exit was called, no remote output is written to the session
\* any more: every chunk the exec wrote to its Stderr sink has been written
\* to s.Stderr() before, none is still held by the pipe copier.
C5_ExitAfterOutput ==
  exits # <<>> => (lateWrites = 0 /\ errCopier # "write")

\* C6: after a client disconnect while Exec is running, once Exec has
\* returned (having closed the pipe ends it was given) and the session's
\* streams and resize channel are closed, the run cannot stop before
\* shellHandler has returned with its deferred calls run and the forwarder
\* and both pipe copiers have terminated.
C6_CancelTerminates ==
  (discInExec /\ Called("ExecReturned") /\ inRClosed /\ errWClosed
     /\ ~ENABLED Next)
    => /\ Returned /\ defers = <<>>
       /\ fwd = "done" /\ inCopier = "done" /\ errCopier = "done"

\* after a failed step only the exit and the deferred Disconnect follow
NothingAfterFailure ==
  \A i \in 1..Len(calls) :
    (calls[i].op \in {"NewIncusServer", "Connect", "UseProject",
                      "GetInstanceUser"} /\ ~calls[i].ok)
      => \A j \in (i + 1)..Len(calls) : calls[j].op \in {"s.Exit", "Disconnect"}

\* C7: Exec is invoked only after the descriptor was found valid and
\* Connect, UseProject (when required) and GetInstanceUser succeeded; a
\* failed step ends the session with its exit code and no later step.
C7_ExecOnlyAfterLookups ==
  /\ Called("Exec")
       => /\ luOk /\ IsValid(lu)
          /\ Succeeded("NewIncusServer") /\ Succeeded("Connect")
          /\ lu.Project # "default" => Succeeded("UseProject")
          /\ Succeeded("GetInstanceUser")
  /\ NothingAfterFailure
  /\ (Returned /\ (~luOk \/ lu.Instance = ""))
       => /\ exits = <<1>> /\ msgs = << <<"invalid connection data">> >>
          /\ calls = <<Call("s.Exit", TRUE)>>
  /\ (Returned /\ (Failed("NewIncusServer") \/ Failed("Connect")))
       => exits = <<255>> /\ msgs = <<>>
  /\ (Returned /\ Succeeded("Connect") /\ ~Failed("UseProject")
        /\ ~Succeeded("GetInstanceUser"))
       => /\ exits = <<1>> /\ msgs = << <<"not found user or instance\n">> >>
          /\ ~Called("Exec") /\ ~Called("NewAgentListener")

C7_Witness ==
  /\ Returned /\ Failed("GetInstanceUser") /\ exits = <<1>>
  /\ Count("Disconnect") = 1

\* C8: UseProject is called exactly when the project is not the default
\* one, right after the successful Connect and before GetInstanceUser; when
\* it fails the session gets "unknown project <name>\n" and exit code 2,
\* neither GetInstanceUser nor Exec is called, and Disconnect still runs.
C8_UseProject ==
  /\ Count("UseProject") <= 1
  /\ \A i \in 1..Len(calls) :
       calls[i].op = "UseProject"
         => i > 1 /\ calls[i - 1] = Call("Connect", TRUE)
  /\ \A i \in 1..Len(calls) :
       calls[i].op = "GetInstanceUser"
         => i > 1 /\ calls[i - 1] =
              IF lu.Project # "default" THEN Call("UseProject", TRUE)
              ELSE Call("Connect", TRUE)
  /\ (Succeeded("Connect") /\ pc # "project")
       => (Called("UseProject") <=> lu.Project # "default")
  /\ Failed("UseProject")
       => /\ msgs = << <<"unknown project ", lu.Project, "\n">> >>
          /\ exits = <<2>>
          /\ ~Called("GetInstanceUser") /\ ~Called("Exec")
          /\ Returned => Count("Disconnect") = 1

C8_Witness ==
  /\ Returned /\ Failed("UseProject") /\ lu.Project = "prod"
  /\ calls[Len(calls)] = Call("Disconnect", TRUE)

\* C9: shellHandler delegates to incusShell exactly for a valid descriptor
\* with user root and instance %shell, and then neither creates a client nor
\* calls Connect or Exec; %shell with another user takes the normal path.
C9_ShellShortCircuit ==
  /\ Called("incusShell")
       <=> /\ luOk /\ lu.Instance # ""
           /\ lu.User = "root" /\ lu.Instance = "%shell"
           /\ pc \notin {"start", "dispatch"}
  /\ Called("incusShell")
       => /\ ~Called("NewIncusServer") /\ ~Called("Connect")
          /\ ~Called("Exec")
  /\ (luOk /\ lu.Instance = "%shell" /\ lu.User # "root"
        /\ pc \notin {"start", "dispatch", "newServer"})
       => Called("NewIncusServer") /\ ~Called("incusShell")

C9_Witness ==
  /\ Returned /\ Called("incusShell") /\ Called("cmd.Wait")
  /\ lu.User = "root" /\ lu.Instance = "%shell"

\* the host of a remote address: what precedes its first colon
IsHostOf(h, addr) ==
  \E k \in 0..Len(addr) :
    /\ h = SubSeq(addr, 1, k)
    /\ \A i \in 1..k : addr[i] # ":"
    /\ k < Len(addr) => addr[k + 1] = ":"

\* C10: the request's command and identity follow the command-string rules
\* for every raw command and shell mode.
C10_CommandRules ==
  req # <<>> =>
    LET r == req[1]
        a == iu[1]
        asTarget == r.User = a.Uid /\ r.Group = a.Gid
        asHost == r.User = 0 /\ r.Group = 0
    IN IF rawCommand = <<>>
       THEN CASE shellMode = "su" ->
                   /\ r.Cmd = <<"s","u"," ","-"," ","\"">> \o a.User \o <<"\"">>
                   /\ asHost
              [] shellMode = "login" ->
                   /\ \E h \in {SubSeq(remoteAddr, 1, k) : k \in 0..Len(remoteAddr)} :
                        /\ IsHostOf(h, remoteAddr)
                        /\ r.Cmd = <<"l","o","g","i","n"," ","-","h"," ","\"">>
                                     \o h \o <<"\""," ","-","f"," ","\"">>
                                     \o a.User \o <<"\"">>
                   /\ asHost
              [] shellMode = "shell" ->
                   /\ r.Cmd = a.Shell \o <<" ","-","l">>
                   /\ asTarget
       ELSE /\ asTarget
            /\ r.Cmd = IF \E i \in 1..Len(rawCommand) : rawCommand[i] = "$"
                       THEN a.Shell \o <<" ","-","c"," ","\"">> \o rawCommand
                              \o <<"\"">>
                       ELSE rawCommand

C10_Witness ==
  /\ req # <<>> /\ shellMode = "su" /\ rawCommand = <<"e"," ","$","U">>
  /\ req[1].Cmd = <<"/","s","h"," ","-","c"," ","\"","e"," ","$","U","\"">>
  /\ req[1].User = 1000 /\ req[1].Group = 1001

\* a client entry is a KEY=VALUE request when it holds an equals sign; its key
\* is what precedes the first one, its value what follows it
IsRequest(v) == \E i \in 1..Len(v) : v[i] = "="

EqPos(v) == CHOOSE i \in 1..Len(v) : v[i] = "=" /\ \A j \in 1..(i - 1) : v[j] # "="

KeyOf(v) == SubSeq(v, 1, EqPos(v) - 1)

ValueOf(v) == SubSeq(v, EqPos(v) + 1, Len(v))

ClientKeys == {KeyOf(environ[i]) : i \in {j \in 1..Len(environ) : IsRequest(environ[j])}}

\* the value of the client's last request for a name
ClientValue(k) ==
  LET is == {i \in 1..Len(environ) : IsRequest(environ[i]) /\ KeyOf(environ[i]) = k}
      last == CHOOSE i \in is : \A j \in is : j <= i
  IN ValueOf(environ[last])

AgentActive == Succeeded("AddSocket")

\* C11: the environment passed to Exec holds every name the client requested
\* and the server's names; TERM, USER, HOME, SHELL have the server's values,
\* SSH_AUTH_SOCK the AddSocket path when agent forwarding is active, and any
\* other name the client's value.
C11_EnvSuperset ==
  req # <<>> =>
    LET e == req[1].Env
        a == iu[1]
        derived == {K_TERM, K_USER, K_HOME, K_SHELL}
    IN /\ DOMAIN e = ClientKeys \cup derived
                       \cup (IF AgentActive THEN {K_SSH_AUTH_SOCK} ELSE {})
       /\ e[K_TERM] = IF term = <<>> THEN XTerm256 ELSE term
       /\ e[K_USER] = a.User /\ e[K_HOME] = a.Dir /\ e[K_SHELL] = a.Shell
       /\ AgentActive => e[K_SSH_AUTH_SOCK] = SocketPath
       /\ \A k \in ClientKeys :
            (k \notin derived /\ ~(AgentActive /\ k = K_SSH_AUTH_SOCK))
              => e[k] = ClientValue(k)

C11_Witness ==
  /\ req # <<>> /\ K_USER \in ClientKeys /\ ClientValue(K_USER) = <<"x">>
  /\ req[1].Env[K_USER] = <<"a","l">>
  /\ req[1].Env[<<"L">>] = <<"D","=","E">>
  /\ term = <<>> /\ req[1].Env[K_TERM] = XTerm256
  /\ AgentActive /\ req[1].Env[K_SSH_AUTH_SOCK] = SocketPath

\* C12: entered on a session without a PTY, the subshell writes
\* "No PTY requested." to the session's stderr, exits with 255, and starts
\* neither the child nor the resize and stdin tasks.
C12_NoPtyOnStderr ==
  (Returned /\ Called("incusShell") /\ ~isPty)
    => /\ errMsgs = << <<"No PTY requested.\n">> >>
       /\ exits = <<ExitCodeConnectionError>>
       /\ ~Called("pty.Start")
       /\ child = "none" /\ rsz = "none" /\ sin = "none"

\* What holds of C12 in the code: the same with the message written to the
\* session itself, its standard output.
C12_NoPtyOnSession ==
  (Returned /\ Called("incusShell") /\ ~isPty)
    => /\ msgs = << <<"No PTY requested.\n">> >> /\ errMsgs = <<>>
       /\ exits = <<ExitCodeConnectionError>>
       /\ ~Called("pty.Start")
       /\ child = "none" /\ rsz = "none" /\ sin = "none"

\* C13: when the child was started and incusShell has returned, exactly one
\* exit code was reported and it is the child's, also when that code is 0
\* (a failure of cmd.Wait itself, reported as 255, set aside).
C13_ChildExitCode ==
  (Returned /\ Succeeded("pty.Start") /\ exits # <<ExitCodeConnectionError>>)
    => exits = <<childCode>>

\* C19: after a client disconnect with the child started, incusShell and its
\* tasks cannot all be blocked before incusShell has returned, the host PTY
\* is closed and both tasks have terminated.
C19_ShellEndsOnDisconnect ==
  (Succeeded("pty.Start") /\ disconnected
     /\ ~ENABLED (ShellStep \/ Return \/ ShellTaskStep))
    => /\ Returned /\ ptyClosed
       /\ rsz = "done" /\ sin = "done"

\* C20: once incusShell has reported the exit code or returned, bufOut holds
\* no chunk read from the host PTY.
C20_OutputFlushed ==
  (Succeeded("pty.Start") /\ (exits # <<>> \/ Returned)) => buf = 0

\* what the calls made so far returned depends on the descriptor alone
SameDescriptorSameBanner ==
  \A i, j \in 1..Len(returned) :
    returned[i].lu = returned[j].lu => returned[i].out = returned[j].out

\* C14: after any calls of bannerHandler the package-level banner is the
\* template it started as, and two calls with the same descriptor returned
\* the same string.
C14_BannerFresh == banner = Template /\ SameDescriptorSameBanner

\* What holds of C14 in the code: the build whose banner is a constant.
C14_ConstBannerFresh ==
  variant = "const" => (banner = Template /\ SameDescriptorSameBanner)

\* C15: what the forwarder has sent on the request's window channel is a
\* prefix of the resize events the SSH layer delivered, in their order and
\* with their width and height.
C15_ResizeInOrder ==
  /\ Len(sent) <= nResize
  /\ \A i \in 1..Len(sent) :
       sent[i].Width = Window(i).Width /\ sent[i].Height = Window(i).Height

C15_Witness ==
  /\ nResize = 2 /\ Len(sent) = 2
  /\ sent[1] = Window(1) /\ sent[2] = Window(2) /\ sent[1] # sent[2]

\* C16: the forwarder never sends on windowChannel after it was closed.
C16_NoSendOnClosed == fwd # "panic" /\ ~crashed

\* C17: a run of shellHandler that does not delegate to incusShell has
\* reported exactly one exit code when it returns, and after Exec that code
\* is what Exec returned.
C17_OneExit ==
  (Returned /\ ~Called("incusShell"))
    => /\ Len(exits) = 1 /\ Count("s.Exit") = 1
       /\ Called("Exec") => exits = <<ret>>

\* the calls shellHandler made after Exec returned
SinceExec ==
  LET k == CHOOSE i \in 1..Len(calls) : calls[i].op = "ExecReturned"
  IN SubSeq(calls, k + 1, Len(calls))

\* the teardown of a session that reached Exec
Teardown ==
  << Call("s.Exit", TRUE), Call("close(windowChannel)", TRUE) >>
    \o (IF Succeeded("AddSocket") THEN <<Call("RemoveSocket", TRUE)>> ELSE <<>>)
    \o (IF Succeeded("NewAgentListener") THEN <<Call("l.Close", TRUE)>> ELSE <<>>)
    \o << Call("Disconnect", TRUE) >>

\* C18: after Exec returned the exit code is reported, then the window
\* channel is closed once, then RemoveSocket runs if registered and with the
\* client still connected, then the listener is closed, then Disconnect.
C18_TeardownOrder ==
  Called("ExecReturned")
    => /\ Len(SinceExec) <= Len(Teardown)
       /\ SinceExec = SubSeq(Teardown, 1, Len(SinceExec))
       /\ Returned => SinceExec = Teardown
       /\ Called("RemoveSocket") => connected \/ Called("Disconnect")

C18_Witness ==
  /\ Returned /\ Succeeded("AddSocket")
  /\ Len(SinceExec) = 5
  /\ SinceExec[3] = Call("RemoveSocket", TRUE)
  /\ SinceExec[5] = Call("Disconnect", TRUE) /\ ~connected

====
